---- MODULE Spec2Model ----
(***************************************************************************)
(* Model of auto.py: the rclone-driven backup loop.  One process (main)    *)
(* walks a local tree, hashes every file into a digest-keyed dict, asks    *)
(* rclone for the remote hash listing, mirrors the directories with        *)
(* rclone mkdir, copies every digest the listing lacks, and sleeps.        *)
(***************************************************************************)
EXTENDS Integers, Sequences, FiniteSets, TLC

\* ---------------------------------------------------------------- bounds
NumFiles == 2
NumDigests == 2
NumDirs == 2
MaxCycles == 2

\* ------------------------------------------------------- program constants
\* The cycle block appears twice more, unindented from the loop, at the end
\* of the "no existing config" branch of main (lines 262-270 and 271-279).
PreLoopCycles == 2

Files == 1..NumFiles
Digests == 1..NumDigests
Dirs == 0..(NumDirs - 1)

VARIABLES
    pc,          \* where main is
    configExists,\* rclone.conf holds a remote section when main starts
    startup,     \* the startup path main took: "none", "reuse", "modify", "fresh"
    rootIsDir,   \* os.path.isdir(local_path)
    configured,  \* remote_name and remote_path are both non-empty
    digestOf,    \* the content digest of each local file
    remoteStore, \* the digests the remote path holds
    local_md5,   \* dict digest -> file, as a sequence of pairs in insertion order
    remote_md5,  \* dict digest -> name, as a sequence of pairs in insertion order
    idx,         \* position of the running loop (walk, mirror walk, dict iteration)
    preLeft,     \* cycles still to run before the while loop is entered
    cycle,       \* number of the current cycle
    log,         \* the operations of the current cycle, in order
    phases,      \* the phases the current cycle entered, in order
    enteredVia,  \* how the current cycle was entered: "startup", "sleep", "fallthrough"
    listing,     \* how the hash listing of this cycle ended
    mkFailed,    \* a mkdir request failed in this cycle
    copyFailed,  \* files whose copy request failed in this cycle
    prevFailed,  \* files whose copy request failed in the previous cycle
    allStored    \* an earlier cycle of this run ended with no failed copy

vars == <<pc, configExists, startup, rootIsDir, configured, digestOf, remoteStore,
          local_md5, remote_md5, idx, preLeft, cycle, log, phases, enteredVia,
          listing, mkFailed, copyFailed, prevFailed, allStored>>

\* ------------------------------------------------------------ Python dicts
\* A dict is a sequence of <<key, value>> pairs in insertion order.
Keys(d) == {d[i][1] : i \in 1..Len(d)}

HasKey(d, k) == \E i \in 1..Len(d) : d[i][1] = k

Get(d, k) == d[CHOOSE i \in 1..Len(d) : d[i][1] = k][2]

\* Variant: an existing key keeps its value (setdefault).
DictSet_KeepFirst(d, k, v) == IF HasKey(d, k) THEN d ELSE Append(d, <<k, v>>)

\* d[k] = v: an existing key keeps its position and takes the new value.
DictSet(d, k, v) ==
    IF HasKey(d, k)
    THEN [i \in 1..Len(d) |-> IF d[i][1] = k THEN <<k, v>> ELSE d[i]]
    ELSE Append(d, <<k, v>>)

\* ----------------------------------------------------------- the local tree
\* Directory 0 is the local root, the others are its subdirectories.
DirOf(f) == f % NumDirs

RECURSIVE SeqOfSet(_)
SeqOfSet(S) ==
    IF S = {} THEN <<>>
    ELSE LET m == CHOOSE x \in S : \A y \in S : x <= y
         IN <<m>> \o SeqOfSet(S \ {m})

FilesIn(d) == SeqOfSet({f \in Files : DirOf(f) = d})

\* os.walk(path): top-down, one (root, dirs, files) triple per directory;
\* nothing at all when path is not a directory.
RECURSIVE WalkFrom(_)
WalkFrom(d) ==
    IF d \notin Dirs THEN <<>> ELSE FilesIn(d) \o WalkFrom(d + 1)

WalkFiles == IF rootIsDir THEN WalkFrom(0) ELSE <<>>

\* ensure_remote_dirs: one mkdir for each directory of the walk, and one more
\* for the parent directory of each of its files.
RECURSIVE Repeat(_, _)
Repeat(x, n) == IF n = 0 THEN <<>> ELSE <<x>> \o Repeat(x, n - 1)

RECURSIVE MirrorFrom(_)
MirrorFrom(d) ==
    IF d \notin Dirs THEN <<>>
    ELSE <<d>> \o Repeat(d, Len(FilesIn(d))) \o MirrorFrom(d + 1)

MirrorPlan == IF rootIsDir THEN MirrorFrom(0) ELSE <<>>

\* ------------------------------------------------------------------ rclone
RcloneOutcomes == {"ok", "nonzero", "missing"}

\* run_rclone_command: the CompletedProcess when rclone exits 0, None when it
\* exits non-zero (check_returncode raises, caught) or cannot be started.
run_rclone_command(outcome, out) ==
    IF outcome = "ok"
    THEN [none |-> FALSE, returncode |-> 0, stdout |-> out]
    ELSE [none |-> TRUE, returncode |-> 0, stdout |-> <<>>]

NoResult == [none |-> TRUE, returncode |-> 0, stdout |-> <<>>]

\* stdout of "rclone hashsum MD5": one "digest  name" line per remote file,
\* each ended by a newline, so that split('\n') yields a last empty line.
\* A line is the sequence of its whitespace-separated tokens.
HashsumOutput(store) ==
    [i \in 1..Cardinality(store) |-> <<SeqOfSet(store)[i], "name">>] \o << <<>> >>

Reverse(s) == [i \in 1..Len(s) |-> s[Len(s) + 1 - i]]

\* rclone lists the remote files in no fixed order (--transfers=30): the
\* lines come in ascending or in descending order of digest.
HashsumOutputs(store) ==
    {HashsumOutput(store),
     Reverse(SubSeq(HashsumOutput(store), 1, Cardinality(store))) \o << <<>> >>}

\* output.strip() is empty
IsBlank(out) == \A i \in 1..Len(out) : Len(out[i]) = 0

\* Variant: a line needs three tokens to be taken.
RECURSIVE ParseLines_ThreeTokens(_, _)
ParseLines_ThreeTokens(out, d) ==
    IF out = <<>> THEN d
    ELSE LET parts == Head(out)
         IN ParseLines_ThreeTokens(Tail(out),
                IF Len(parts) > 2 THEN DictSet(d, parts[1], parts[2]) ELSE d)

\* get_remote_md5 lines 173-177: a line of two tokens or more gives
\* remote_md5_dict[parts[0]] = parts[1], any other line is skipped.
RECURSIVE ParseLines(_, _)
ParseLines(out, d) ==
    IF out = <<>> THEN d
    ELSE LET parts == Head(out)
         IN ParseLines(Tail(out),
                       IF Len(parts) >= 2 THEN DictSet(d, parts[1], parts[2]) ELSE d)

NoneValue == [none |-> TRUE, items |-> <<>>]

Dict(items) == [none |-> FALSE, items |-> items]

\* Variant: a failed listing yields None instead of {}.
get_remote_md5_NoneOnFailure(conf, res) ==
    IF ~conf THEN Dict(<<>>)
    ELSE IF res.none \/ res.returncode # 0 THEN NoneValue
    ELSE IF IsBlank(res.stdout) THEN Dict(<<>>)
    ELSE Dict(ParseLines(res.stdout, <<>>))

\* get_remote_md5, given the result of its run_rclone_command call (which it
\* makes only when remote_name and remote_path are both non-empty).
get_remote_md5(conf, res) ==
    IF ~conf THEN Dict(<<>>)
    ELSE IF res.none \/ res.returncode # 0 THEN Dict(<<>>)
    ELSE IF IsBlank(res.stdout) THEN Dict(<<>>)
    ELSE Dict(ParseLines(res.stdout, <<>>))

\* Variant: no except clause, the AttributeError on None leaves the function.
ensure_remote_dir_exists_NoExcept(res) == [raised |-> res.none]

\* ensure_remote_dir_exists: result.returncode on None raises AttributeError,
\* which the except clause catches and logs; the call always returns.
ensure_remote_dir_exists(res) == [raised |-> FALSE]

\* Variant: only the first entry of remote_md5 is looked at.
NeedsBackup_FirstEntryOnly(d, remote) == remote = <<>> \/ remote[1][1] # d

\* Variant: every item of local_md5 is copied.
NeedsBackup_Always(d, remote) == TRUE

\* compare_and_backup line 190: local_md5_value not in remote_md5
NeedsBackup(d, remote) == ~HasKey(remote, d)

\* Variant: a failed copy ends the loop.
NextAfterCopy_StopOnFailure(i, res) == IF res.none THEN Len(local_md5) + 1 ELSE i + 1

\* Variant: a failed copy is tried again at once.
NextAfterCopy_RetryOnFailure(i, res) == IF res.none THEN i ELSE i + 1

\* compare_and_backup line 199: the result of the copy is dropped and the loop
\* goes on to the next item.
NextAfterCopy(i, res) == i + 1

\* Variant: main calls ensure_remote_dirs before get_remote_md5.
NextPhase_MirrorBeforeFetch(p) ==
    CASE p = "hash" -> "mirror"
      [] p = "mirror" -> "fetch"
      [] p = "fetch" -> "transfer"
      [] p = "transfer" -> "done"

\* Variant: compare_and_backup calls ensure_remote_dirs after its copy loop.
NextPhase_MirrorLast(p) ==
    CASE p = "hash" -> "fetch"
      [] p = "fetch" -> "transfer"
      [] p = "transfer" -> "mirror"
      [] p = "mirror" -> "done"

\* The order of the calls in one cycle: main calls calculate_local_md5,
\* get_remote_md5 and compare_and_backup, which calls ensure_remote_dirs
\* first and then runs its copy loop.
NextPhase(p) ==
    CASE p = "hash" -> "fetch"
      [] p = "fetch" -> "mirror"
      [] p = "mirror" -> "transfer"
      [] p = "transfer" -> "done"

\* Variant: the request is made whatever the remote name and path.
IssuesListing_Always(conf) == TRUE

\* get_remote_md5 line 161: the hashsum request is made only when
\* remote_name and remote_path are both non-empty.
IssuesListing(conf) == conf

\* What get_remote_md5 saw: no request, a failed request, no output, lines.
ListingOf(conf, o, out) ==
    IF ~conf THEN "skipped"
    ELSE IF o # "ok" THEN o
    ELSE IF IsBlank(out) THEN "empty" ELSE "lines"

\* ----------------------------------------------------------------- history
Copies(l) == {l[i][2] : i \in {j \in 1..Len(l) : l[j][1] = "copy"}}

CopyCount(l, f) == Cardinality({i \in 1..Len(l) : l[i] = <<"copy", f>>})

Mkdirs(l) == {l[i][2] : i \in {j \in 1..Len(l) : l[j][1] = "mkdir"}}

PhaseOf(p) ==
    CASE p = "hash" -> <<"Hashing">>
      [] p = "fetch" -> <<"Fetching">>
      [] p = "mirror" -> <<"Mirroring">>
      [] p = "transfer" -> <<"Transferring">>
      [] OTHER -> <<>>

Running == pc \in {"hash", "fetch", "mirror", "transfer", "done", "sleep"}

\* -------------------------------------------------------------------- Init
Init ==
    /\ pc = "start"
    /\ configExists \in BOOLEAN
    /\ startup = "none"
    /\ rootIsDir = FALSE
    /\ configured = FALSE
    /\ digestOf \in [Files -> Digests]
    /\ remoteStore \in SUBSET Digests
    /\ local_md5 = <<>>
    /\ remote_md5 = Dict(<<>>)
    /\ idx = 1
    /\ preLeft = 0
    /\ cycle = 0
    /\ log = <<>>
    /\ phases = <<>>
    /\ enteredVia = "none"
    /\ listing = "none"
    /\ mkFailed = FALSE
    /\ copyFailed = {}
    /\ prevFailed = {}
    /\ allStored = FALSE

\* The head of a cycle: logging.info, then calculate_local_md5 starts with an
\* empty md5_dict.  remote_md5 keeps its value until get_remote_md5 returns.
BeginCycle(via) ==
    /\ pc' = "hash"
    /\ phases' = <<"Hashing">>
    /\ local_md5' = <<>>
    /\ idx' = 1
    /\ cycle' = cycle + 1
    /\ log' = <<>>
    /\ enteredVia' = via
    /\ listing' = "none"
    /\ mkFailed' = FALSE
    /\ copyFailed' = {}
    /\ prevFailed' = copyFailed
    /\ allStored' = (cycle > 0 /\ (allStored \/ copyFailed = {}))

\* main, existing config, answer other than 'y': the remote comes from the
\* config file, the local path from input.
StartReuse ==
    /\ pc = "start" /\ configExists
    /\ \E isdir \in BOOLEAN, conf \in BOOLEAN :
        /\ rootIsDir' = isdir
        /\ configured' = conf
    /\ startup' = "reuse"
    /\ preLeft' = 0
    /\ BeginCycle("startup")
    /\ UNCHANGED <<configExists, digestOf, remoteStore, remote_md5>>

\* main, existing config, answer 'y': everything from input; obscure_password
\* raises ValueError when rclone obscure fails.
StartModify ==
    /\ pc = "start" /\ configExists
    /\ \E isdir \in BOOLEAN, conf \in BOOLEAN, obscured \in BOOLEAN :
        IF obscured
        THEN /\ rootIsDir' = isdir
             /\ configured' = conf
             /\ startup' = "modify"
             /\ preLeft' = 0
             /\ BeginCycle("startup")
             /\ UNCHANGED <<configExists, digestOf, remoteStore, remote_md5>>
        ELSE /\ pc' = "crashed"
             /\ startup' = "modify"
             /\ UNCHANGED <<configExists, rootIsDir, configured, digestOf, remoteStore,
                            local_md5, remote_md5, idx, preLeft, cycle, log, phases,
                            enteredVia, listing, mkFailed, copyFailed, prevFailed, allStored>>

\* main, no existing config: everything from input, and the cycle block runs
\* PreLoopCycles times inside the else branch before the while loop.
StartFresh ==
    /\ pc = "start" /\ ~configExists
    /\ \E isdir \in BOOLEAN, conf \in BOOLEAN, obscured \in BOOLEAN :
        IF obscured
        THEN /\ rootIsDir' = isdir
             /\ configured' = conf
             /\ startup' = "fresh"
             /\ preLeft' = PreLoopCycles
             /\ BeginCycle("startup")
             /\ UNCHANGED <<configExists, digestOf, remoteStore, remote_md5>>
        ELSE /\ pc' = "crashed"
             /\ startup' = "fresh"
             /\ UNCHANGED <<configExists, rootIsDir, configured, digestOf, remoteStore,
                            local_md5, remote_md5, idx, preLeft, cycle, log, phases,
                            enteredVia, listing, mkFailed, copyFailed, prevFailed, allStored>>

\* ---------------------------------------------------------------- Hashing
\* calculate_local_md5, one file of the walk: open and read under no try, so
\* an OSError leaves calculate_local_md5 and main; otherwise
\* md5_dict[hexdigest] = file_path.
HashOne(md5_dict, f, readable) ==
    IF readable
    THEN [raised |-> FALSE, value |-> DictSet(md5_dict, digestOf[f], f)]
    ELSE [raised |-> TRUE, value |-> md5_dict]

HashFile ==
    /\ pc = "hash" /\ idx <= Len(WalkFiles)
    /\ \E readable \in BOOLEAN :
        LET f == WalkFiles[idx]
            r == HashOne(local_md5, f, readable)
        IN /\ log' = Append(log, <<"hash", f>>)
           /\ local_md5' = r.value
           /\ IF r.raised
              THEN pc' = "crashed" /\ idx' = idx
              ELSE pc' = "hash" /\ idx' = idx + 1
    /\ UNCHANGED <<configExists, startup, rootIsDir, configured, digestOf, remoteStore,
                   remote_md5, preLeft, cycle, phases, enteredVia, listing, mkFailed,
                   copyFailed, prevFailed, allStored>>

\* calculate_local_md5 returns; main calls get_remote_md5.
EndHash ==
    /\ pc = "hash" /\ idx > Len(WalkFiles)
    /\ pc' = NextPhase(pc)
    /\ phases' = phases \o PhaseOf(NextPhase(pc))
    /\ idx' = 1
    /\ UNCHANGED <<configExists, startup, rootIsDir, configured, digestOf, remoteStore,
                   local_md5, remote_md5, preLeft, cycle, log, enteredVia,
                   listing, mkFailed, copyFailed, prevFailed, allStored>>

\* --------------------------------------------------------------- Fetching
\* get_remote_md5 (empty name or path: no request, {}), then main calls
\* compare_and_backup, whose first statement is ensure_remote_dirs.
Fetch ==
    /\ pc = "fetch"
    /\ IF ~IssuesListing(configured)
       THEN /\ remote_md5' = get_remote_md5(configured, NoResult)
            /\ listing' = ListingOf(configured, "ok", <<>>)
            /\ log' = log
       ELSE \E o \in RcloneOutcomes, out \in HashsumOutputs(remoteStore) :
               /\ remote_md5' = get_remote_md5(configured, run_rclone_command(o, out))
               /\ listing' = ListingOf(configured, o, out)
               /\ log' = Append(log, <<"hashsum", 0>>)
    /\ pc' = NextPhase(pc)
    /\ phases' = phases \o PhaseOf(NextPhase(pc))
    /\ idx' = 1
    /\ UNCHANGED <<configExists, startup, rootIsDir, configured, digestOf, remoteStore,
                   local_md5, preLeft, cycle, enteredVia, mkFailed, copyFailed,
                   prevFailed, allStored>>

\* -------------------------------------------------------------- Mirroring
\* ensure_remote_dirs, one ensure_remote_dir_exists call.
MirrorDir ==
    /\ pc = "mirror" /\ idx <= Len(MirrorPlan)
    /\ \E o \in RcloneOutcomes :
        LET d == MirrorPlan[idx]
            r == ensure_remote_dir_exists(run_rclone_command(o, <<>>))
        IN /\ log' = Append(log, <<"mkdir", d>>)
           /\ mkFailed' = (mkFailed \/ o # "ok")
           /\ IF r.raised
              THEN pc' = "crashed" /\ idx' = idx
              ELSE pc' = "mirror" /\ idx' = idx + 1
    /\ UNCHANGED <<configExists, startup, rootIsDir, configured, digestOf, remoteStore,
                   local_md5, remote_md5, preLeft, cycle, phases, enteredVia,
                   listing, copyFailed, prevFailed, allStored>>

\* ensure_remote_dirs returns (at once when local_path is no directory).
EndMirror ==
    /\ pc = "mirror" /\ idx > Len(MirrorPlan)
    /\ pc' = NextPhase(pc)
    /\ phases' = phases \o PhaseOf(NextPhase(pc))
    /\ idx' = 1
    /\ UNCHANGED <<configExists, startup, rootIsDir, configured, digestOf, remoteStore,
                   local_md5, remote_md5, preLeft, cycle, log, enteredVia, listing, mkFailed,
                   copyFailed, prevFailed, allStored>>

\* ----------------------------------------------------- Diffing, Transferring
\* A successful copy of file f puts its content on the remote.
Stored(store, fs) == store \cup {digestOf[f] : f \in fs}

\* compare_and_backup after ensure_remote_dirs: the bulk copy when remote_md5
\* is None, else one iteration of the loop over local_md5.items().
TransferItem ==
    /\ pc = "transfer"
    /\ IF remote_md5.none
       THEN \E o \in RcloneOutcomes :
            /\ log' = Append(log, <<"copy", 0>>)
            /\ remoteStore' = IF o = "ok" THEN Stored(remoteStore, Files) ELSE remoteStore
            /\ copyFailed' = copyFailed
            /\ pc' = "done"
            /\ idx' = idx
       ELSE /\ idx <= Len(local_md5)
            /\ LET d == local_md5[idx][1]
                   f == local_md5[idx][2]
               IN IF NeedsBackup(d, remote_md5.items)
                  THEN \E o \in RcloneOutcomes :
                       LET res == run_rclone_command(o, <<>>)
                       IN /\ log' = Append(log, <<"copy", f>>)
                          /\ remoteStore' = IF res.none THEN remoteStore
                                            ELSE Stored(remoteStore, {f})
                          /\ copyFailed' = IF res.none THEN copyFailed \cup {f}
                                           ELSE copyFailed
                          /\ pc' = "transfer"
                          /\ idx' = NextAfterCopy(idx, res)
                  ELSE /\ log' = log
                       /\ remoteStore' = remoteStore
                       /\ copyFailed' = copyFailed
                       /\ pc' = "transfer"
                       /\ idx' = idx + 1
    /\ UNCHANGED <<configExists, startup, rootIsDir, configured, digestOf, local_md5,
                   remote_md5, preLeft, cycle, phases, enteredVia, listing, mkFailed,
                   prevFailed, allStored>>

\* The loop over local_md5.items() ends and compare_and_backup returns.
EndTransfer ==
    /\ pc = "transfer" /\ ~remote_md5.none /\ idx > Len(local_md5)
    /\ pc' = NextPhase(pc)
    /\ phases' = phases \o PhaseOf(NextPhase(pc))
    /\ idx' = 1
    /\ UNCHANGED <<configExists, startup, rootIsDir, configured, digestOf, remoteStore,
                   local_md5, remote_md5, preLeft, cycle, log,
                   enteredVia, listing, mkFailed, copyFailed, prevFailed, allStored>>

\* ---------------------------------------------------------------- Scheduler
\* In the "no existing config" branch the statement after compare_and_backup
\* is the next copy of the cycle block, or the head of the while loop.
FallThrough ==
    /\ pc = "done" /\ preLeft > 0
    /\ preLeft' = preLeft - 1
    /\ BeginCycle("fallthrough")
    /\ UNCHANGED <<configExists, startup, rootIsDir, configured, digestOf, remoteStore,
                   remote_md5>>

\* Inside the while loop: print, time.sleep(20).
Sleep ==
    /\ pc = "done" /\ preLeft = 0
    /\ pc' = "sleep"
    /\ UNCHANGED <<configExists, startup, rootIsDir, configured, digestOf, remoteStore,
                   local_md5, remote_md5, idx, preLeft, cycle, log, phases,
                   enteredVia, listing, mkFailed, copyFailed, prevFailed, allStored>>

\* time.sleep returns, logging.info, and the loop body starts again.
Wake ==
    /\ pc = "sleep" /\ cycle < MaxCycles
    /\ BeginCycle("sleep")
    /\ UNCHANGED <<configExists, startup, rootIsDir, configured, digestOf, remoteStore,
                   remote_md5, preLeft>>

\* Another writer puts content on the remote path while main sleeps.
ExternalUpload ==
    /\ pc = "sleep" /\ cycle < MaxCycles
    /\ \E d \in Digests \ remoteStore : remoteStore' = remoteStore \cup {d}
    /\ UNCHANGED <<pc, configExists, startup, rootIsDir, configured, digestOf,
                   local_md5, remote_md5, idx, preLeft, cycle, log, phases,
                   enteredVia, listing, mkFailed, copyFailed, prevFailed, allStored>>

\* KeyboardInterrupt: main has no handler, the process ends where it is and
\* its variables are gone.
Interrupt ==
    /\ Running
    /\ pc' = "stopped"
    /\ local_md5' = <<>>
    /\ remote_md5' = Dict(<<>>)
    /\ idx' = 1
    /\ log' = <<>>
    /\ phases' = <<>>
    /\ listing' = "none"
    /\ mkFailed' = FALSE
    /\ copyFailed' = {}
    /\ prevFailed' = {}
    /\ allStored' = FALSE
    /\ UNCHANGED <<configExists, startup, rootIsDir, configured, digestOf, remoteStore,
                   preLeft, cycle, enteredVia>>

Next ==
    \/ StartReuse \/ StartModify \/ StartFresh
    \/ HashFile \/ EndHash
    \/ Fetch
    \/ MirrorDir \/ EndMirror
    \/ TransferItem \/ EndTransfer
    \/ FallThrough \/ Sleep \/ Wake
    \/ ExternalUpload
    \/ Interrupt

Spec == Init /\ [][Next]_vars

\* ------------------------------------------------------------- properties
CycleOver == pc \in {"done", "sleep"}

LocalFiles == IF rootIsDir THEN Files ELSE {}

\* The directories reachable from the local root: the root, its
\* subdirectories and every file's parent.
ReachableDirs == IF rootIsDir THEN Dirs \cup {DirOf(f) : f \in Files} ELSE {}

Listed(d) == HasKey(remote_md5.items, d)

CountOf(l, op) == Cardinality({i \in 1..Len(l) : l[i][1] = op})

\* Copy requests that transfer file f: its own, or a whole-tree copy.
TransfersOf(l, f) == CopyCount(l, f) + CopyCount(l, 0)

IsPrefix(s, t) == Len(s) <= Len(t) /\ \A i \in 1..Len(s) : s[i] = t[i]

RankOf(e) ==
    CASE e[1] = "hash" -> 1
      [] e[1] = "hashsum" -> 2
      [] e[1] = "mkdir" -> 3
      [] e[1] = "copy" -> 4

SpecPhaseOrder == <<"Mirroring", "Hashing", "Fetching", "Transferring">>

CodePhaseOrder == <<"Hashing", "Fetching", "Mirroring", "Transferring">>

\* C1: when a cycle is over, every file of the local tree whose digest is not
\* a key of the remote manifest fetched in that cycle has got exactly one
\* copy request in that cycle, also when files share a digest.
C1_OneCopyPerMissingFile ==
    CycleOver =>
        \A f \in LocalFiles : ~Listed(digestOf[f]) => TransfersOf(log, f) = 1

\* C2: once the remote manifest of a cycle is fetched, a file whose digest is
\* one of its keys has no copy request in that cycle.
C2_NoCopyWhenDigestListed ==
    \A f \in LocalFiles :
        (pc \in {"mirror", "transfer", "done", "sleep"} /\ Listed(digestOf[f]))
            => TransfersOf(log, f) = 0

\* C2 witness: a finished cycle that skipped a listed file and copied another.
C2_Witness ==
    /\ CycleOver
    /\ \E f \in LocalFiles : Listed(digestOf[f]) /\ TransfersOf(log, f) = 0
    /\ \E g \in LocalFiles : CopyCount(log, g) = 1

\* C3 as stated: the phases of a cycle run in the order Mirroring, Hashing,
\* Fetching, Transferring, and the first mkdir request of a cycle comes
\* before any file is hashed.
C3_MirrorBeforeHashing ==
    /\ IsPrefix(phases, SpecPhaseOrder)
    /\ \A i, j \in 1..Len(log) :
        (log[i][1] = "hash" /\ log[j][1] = "mkdir") => j < i

\* C3 amended: the phases of a cycle run in the order Hashing, Fetching,
\* Mirroring, Transferring, none entered before the one before it has ended
\* and none missing from a cycle that ends; so every mkdir request comes
\* after the hashing and after the hash-listing request, and the hash-listing
\* request comes after the hashing and before any copy request.
C3_CodePhaseOrder ==
    /\ IsPrefix(phases, CodePhaseOrder)
    /\ PhaseOf(pc) # <<>> => (phases # <<>> /\ <<phases[Len(phases)]>> = PhaseOf(pc))
    /\ CycleOver => phases = CodePhaseOrder
    /\ \A i \in 1..(Len(log) - 1) : RankOf(log[i]) <= RankOf(log[i + 1])

\* C3 witness: a finished cycle that hashed, listed, made directories and copied.
C3_Witness ==
    /\ CycleOver
    /\ {log[i][1] : i \in 1..Len(log)} = {"hash", "hashsum", "mkdir", "copy"}

\* C4: every cycle after the first of a run is entered from the sleep, on
\* every startup path.
C4_SleepBetweenCycles == (Running /\ cycle > 1) => enteredVia = "sleep"

\* C5: a file that cannot be read during hashing does not end the manifest
\* build: the process is never ended by the hashing phase.
C5_HashFailureIsolated == (cycle > 0 /\ phases = <<"Hashing">>) => pc # "crashed"

\* C6: when the hash-listing request fails or prints nothing, the remote
\* manifest is the empty dict, the process goes on, and the finished cycle
\* has issued exactly one copy request for every entry of the local manifest.
C6_FailedListingCopiesAll ==
    listing \in {"nonzero", "missing", "empty"} =>
        /\ remote_md5 = Dict(<<>>)
        /\ pc # "crashed"
        /\ CycleOver =>
            /\ \A i \in 1..Len(local_md5) : CopyCount(log, local_md5[i][2]) = 1
            /\ CountOf(log, "copy") = Len(local_md5)

\* C6 witness: a finished cycle whose listing could not be started and which
\* copied a file.
C6_Witness ==
    /\ CycleOver
    /\ listing = "missing"
    /\ CountOf(log, "copy") > 0

\* C7: in a finished cycle every local manifest entry whose digest the remote
\* manifest lacks has its copy request, whichever copy requests failed; a
\* failed copy never ends the process.
C7_FailedCopyDoesNotStopLoop ==
    /\ CycleOver =>
        \A i \in 1..Len(local_md5) :
            ~Listed(local_md5[i][1]) => CopyCount(log, local_md5[i][2]) = 1
    /\ pc = "crashed" => copyFailed = {}

\* C7 witness: a finished cycle whose first copy request failed and which
\* issued another copy request after it.
C7_Witness ==
    /\ CycleOver
    /\ \E i, j \in 1..Len(log) :
        /\ i < j
        /\ log[i][1] = "copy" /\ log[j][1] = "copy"
        /\ log[i][2] \in copyFailed
        /\ \A k \in 1..(i - 1) : log[k][1] # "copy"

\* C8: a file whose copy request failed has exactly one copy request in that
\* cycle, and in the next cycle that ends it has one copy request if its
\* digest is not a key of the remote manifest fetched then, and none if it is.
C8_RetryOnlyNextCycle ==
    /\ \A f \in copyFailed : CopyCount(log, f) = 1
    /\ (CycleOver /\ cycle > 1) =>
        \A f \in prevFailed :
            CopyCount(log, f) = (IF Listed(digestOf[f]) THEN 0 ELSE 1)

\* C8 witness: a finished cycle after one in which two copies failed, one of
\* the two files copied again and the other, now listed, not.
C8_Witness ==
    /\ CycleOver /\ cycle > 1
    /\ \E f, g \in prevFailed :
        /\ CopyCount(log, f) = 1 /\ ~Listed(digestOf[f])
        /\ CopyCount(log, g) = 0 /\ Listed(digestOf[g])

\* C9: when the mirror walk has ended, one mkdir request was issued for each
\* step of the walk and every reachable directory has had one; a failed
\* mkdir request never ends the process.
C9_MirrorCoversEveryDirectory ==
    /\ pc \in {"transfer", "done", "sleep"} =>
        /\ Mkdirs(log) = ReachableDirs
        /\ CountOf(log, "mkdir") = Len(MirrorPlan)
    /\ mkFailed => pc # "crashed"

\* C9 witness: the transfer loop is reached in a cycle in which a mkdir
\* request failed.
C9_Witness == pc = "transfer" /\ mkFailed /\ ReachableDirs # {}

\* C10: no mkdir request of a cycle follows a copy request of that cycle, and
\* the mirror walk is complete when the first copy request is issued.
C10_MkdirsBeforeCopies ==
    /\ \A i, j \in 1..Len(log) :
        (log[i][1] = "copy" /\ log[j][1] = "mkdir") => j < i
    /\ CountOf(log, "copy") > 0 => CountOf(log, "mkdir") = Len(MirrorPlan)

\* C10 witness: a cycle with mkdir requests and a copy request.
C10_Witness == CountOf(log, "copy") > 0 /\ CountOf(log, "mkdir") > 0

\* C11: when the local root given at startup is not a directory, no cycle
\* runs: nothing is hashed, no hash-listing, mkdir or copy request is issued
\* and main never sleeps.
C11_BadRootStopsBeforeCycles ==
    (startup # "none" /\ ~rootIsDir) =>
        /\ log = <<>>
        /\ pc # "sleep"

\* C12 as stated: after a cycle in which every issued copy succeeded, no
\* later cycle issues a copy request.
C12_NoCopyAfterFullSuccess == allStored => CountOf(log, "copy") = 0

\* C12 amended: after a cycle in which every issued copy succeeded, every
\* later cycle whose hash-listing request is issued and succeeds issues no
\* copy request.
C12_NoCopyAfterFullSuccessWhenListed ==
    (allStored /\ listing \in {"lines", "empty"}) => CountOf(log, "copy") = 0

\* C12 witness: a finished cycle after a fully successful one, with a local
\* manifest whose digests the listing returned, and no copy request.
C12_Witness ==
    /\ CycleOver /\ allStored /\ listing = "lines"
    /\ local_md5 # <<>>
    /\ CountOf(log, "copy") = 0

\* The file walked last, in the walk w, among those with digest d.
LastWalked(w, d) ==
    w[CHOOSE i \in 1..Len(w) :
        /\ digestOf[w[i]] = d
        /\ \A j \in (i + 1)..Len(w) : digestOf[w[j]] # d]

\* C13: the local manifest never holds a digest twice; once hashing has
\* ended each entry names the file walked last among those with its digest;
\* and of two files with the same content at most one gets a copy request in
\* a cycle.
C13_OnePathPerDigest ==
    /\ \A i, j \in 1..Len(local_md5) : local_md5[i][1] = local_md5[j][1] => i = j
    /\ pc \in {"fetch", "mirror", "transfer", "done", "sleep"} =>
        LET w == WalkFiles
        IN \A i \in 1..Len(local_md5) : local_md5[i][2] = LastWalked(w, local_md5[i][1])
    /\ \A f, g \in LocalFiles :
        (f # g /\ digestOf[f] = digestOf[g]) => CopyCount(log, f) + CopyCount(log, g) <= 1

\* C13 witness: a finished cycle over two files with the same content, one
\* of which was copied.
C13_Witness ==
    /\ CycleOver
    /\ \E f, g \in LocalFiles :
        /\ f # g /\ digestOf[f] = digestOf[g]
        /\ CopyCount(log, f) + CopyCount(log, g) = 1

\* C14: in a finished cycle the digests that got a copy request are the keys
\* of the local manifest that are not keys of the remote manifest, whatever
\* the order of hashing and of the listed lines and whatever the paths.
C14_CopiedDigestsAreKeyDifference ==
    CycleOver =>
        /\ {digestOf[f] : f \in Copies(log) \cap Files}
               = Keys(local_md5) \ Keys(remote_md5.items)
        /\ CopyCount(log, 0) = 0

\* C14 witness: a finished cycle whose local manifest was filled in
\* descending order of digest, with one digest listed and the other copied.
C14_Witness ==
    /\ CycleOver
    /\ Len(local_md5) > 1 /\ local_md5[1][1] > local_md5[Len(local_md5)][1]
    /\ Keys(local_md5) \cap Keys(remote_md5.items) # {}
    /\ CountOf(log, "copy") > 0

\* C15: once main is in its while loop, the only step that ends the running
\* process is the external interruption.
C15_OnlyInterruptStops ==
    [][(Running /\ preLeft = 0 /\ ~Running') => pc' = "stopped"]_vars

\* C16: a finished cycle whose remote manifest is empty and whose local
\* manifest is not has issued one whole-tree copy request and no other copy.
C16_EmptyRemoteBulkCopy ==
    (CycleOver /\ remote_md5.items = <<>> /\ local_md5 # <<>>) =>
        /\ CopyCount(log, 0) = 1
        /\ CountOf(log, "copy") = 1

\* C17: with an empty remote name or path no hash-listing request is ever
\* issued, the remote manifest fetched is the empty dict, and every finished
\* cycle has issued exactly one copy request for each entry of the local
\* manifest, whatever succeeded before.
C17_UnconfiguredRemoteCopiesAllEveryCycle ==
    (startup # "none" /\ ~configured) =>
        /\ CountOf(log, "hashsum") = 0
        /\ remote_md5 = Dict(<<>>)
        /\ listing \in {"none", "skipped"}
        /\ CycleOver =>
            /\ \A i \in 1..Len(local_md5) : TransfersOf(log, local_md5[i][2]) = 1
            /\ CountOf(log, "copy") = Len(local_md5)

\* C17 witness: with an empty remote name or path, a finished cycle that
\* follows a fully successful one and still copied every entry.
C17_Witness ==
    /\ CycleOver /\ ~configured /\ allStored
    /\ Len(local_md5) > 1
    /\ CountOf(log, "copy") = Len(local_md5)

====
